---------------------------- MODULE Spec2Model ----------------------------
(***************************************************************************)
(* Model of smooth-bevy-cameras, src/look_transform.rs: the LookTransform  *)
(* value type, its conversion to a Transform, the Smoother (an exponential *)
(* smoothing filter) and look_transform_system.                            *)
(*                                                                         *)
(* The program computes in f32.  A finite f32 is modelled by the pair      *)
(* <<m, e>> of its value m * 2^e: zero is <<0, 0>> and every other finite  *)
(* value has 2^23 <= |m| < 2^24, so that equal values are equal pairs.     *)
(* Every operation rounds its exact result to nearest, ties to even, as    *)
(* IEEE 754 binary32 does.  The sign of zero is dropped (f32's == ignores  *)
(* it) and the exponent is unbounded: the values the model reaches stay    *)
(* far inside binary32's normal range.  NaN is the pair <<0, 1>>.          *)
(***************************************************************************)
EXTENDS Integers, Sequences, FiniteSets, TLC

(***************************************************************************)
(* f32 arithmetic                                                          *)
(***************************************************************************)

\* Width of the f32 significand, hidden bit included.
MantBits == 24

Zero == <<0, 0>>
NaN == <<0, 1>>

Abs(n) == IF n < 0 THEN -n ELSE n
Sgn(n) == IF n < 0 THEN -1 ELSE 1

\* Number of bits of the natural number n < 2^31.
RECURSIVE BitLen(_)
BitLen(n) ==
    IF n >= 65536 THEN 16 + BitLen(n \div 65536)
    ELSE IF n >= 256 THEN 8 + BitLen(n \div 256)
    ELSE IF n >= 16 THEN 4 + BitLen(n \div 16)
    ELSE IF n >= 4 THEN 2 + BitLen(n \div 4)
    ELSE IF n >= 2 THEN 2
    ELSE n

\* The f32 nearest to N * 2^e, ties to even.
RoundNE(N, e) ==
    LET n == Abs(N)
        L == BitLen(n)
        k == L - MantBits
        q == n \div 2^k
        r == n % 2^k
        half == 2^(k-1)
        up == r > half \/ (r = half /\ q % 2 = 1)
        q1 == IF up THEN q + 1 ELSE q
    IN  IF N = 0 THEN Zero
        ELSE IF k <= 0 THEN <<N * 2^(-k), e + k>>
        ELSE IF q1 = 2^MantBits THEN <<Sgn(N) * 2^(MantBits-1), e + k + 1>>
        ELSE <<Sgn(N) * q1, e + k>>

\* Round to odd: N is the floor of an exact value that is not an integer when
\* inexact holds.  Rounding the odd neighbour to nearest afterwards gives the
\* correctly rounded exact value (N carries at least two bits more than f32).
Sticky(N, inexact) == IF inexact /\ N % 2 = 0 THEN N + 1 ELSE N

\* The f32 of a small integer and of the dyadic fraction n / 2^k.
F32(n) == RoundNE(n, 0)
Dyadic(n, k) == RoundNE(n, -k)

FNeg(a) == IF a = NaN THEN NaN ELSE <<-a[1], a[2]>>

\* a + b
FAdd(a, b) ==
    IF a = NaN \/ b = NaN THEN NaN
    ELSE IF a = Zero THEN b
    ELSE IF b = Zero THEN a
    ELSE LET hi == IF a[2] >= b[2] THEN a ELSE b
             lo == IF a[2] >= b[2] THEN b ELSE a
             d == hi[2] - lo[2]
         IN  IF d <= 6 THEN RoundNE(hi[1] * 2^d + lo[1], lo[2])
             ELSE IF d > 36 THEN hi
             ELSE RoundNE(Sticky(hi[1] * 64 + (lo[1] \div 2^(d-6)),
                                 lo[1] % 2^(d-6) # 0),
                          hi[2] - 6)

\* a - b
FSub(a, b) == FAdd(a, FNeg(b))

\* a * b: the 48-bit product of the significands is formed from 12-bit halves.
FMul(a, b) ==
    IF a = NaN \/ b = NaN THEN NaN
    ELSE IF a = Zero \/ b = Zero THEN Zero
    ELSE LET x == Abs(a[1])
             y == Abs(b[1])
             x1 == x \div 4096
             x0 == x % 4096
             y1 == y \div 4096
             y0 == y % 4096
             mid == x1 * y0 + x0 * y1
             low == (mid % 4096) * 4096 + x0 * y0
             hi == x1 * y1 + (mid \div 4096) + (low \div 2^24)
             lo == low % 2^24
             s == Sgn(a[1]) * Sgn(b[1])
         IN  RoundNE(s * Sticky(hi * 64 + (lo \div 2^18), lo % 2^18 # 0),
                     a[2] + b[2] + 18)

\* floor(sqrt(N)) by Newton's iteration downwards from x >= sqrt(N).
RECURSIVE ISqrt(_, _)
ISqrt(N, x) ==
    LET y == (x + N \div x) \div 2
    IN  IF y >= x THEN x ELSE ISqrt(N, y)

\* sqrt(a).  With an even exponent E, a = M * 2^E and sqrt(a) is the root of
\* M * 2^28 scaled by 2^(E/2 - 14).  r1 is the floor of the root of M * 16 and
\* d the twelve bits after it: the largest d with (r1 * 2^12 + d)^2 <= M * 2^28.
FSqrt(a) ==
    IF a = NaN \/ a[1] < 0 THEN NaN
    ELSE IF a = Zero THEN Zero
    ELSE LET odd == a[2] % 2 = 1
             M == IF odd THEN 2 * a[1] ELSE a[1]
             E == IF odd THEN a[2] - 1 ELSE a[2]
             r1 == ISqrt(M * 16, 32768)
             rem1 == M * 16 - r1 * r1
             d0 == (rem1 * 4096) \div (2 * r1)
             fits == d0 * d0 <= (rem1 * 4096 - 2 * r1 * d0) * 4096
             d == IF fits THEN d0 ELSE d0 - 1
             left == (rem1 * 4096 - 2 * r1 * d) * 4096 - d * d
         IN  RoundNE(Sticky(r1 * 4096 + d, left # 0), (E \div 2) - 14)

\* Long division of 2^50 by m, six bits a step from 2^30 on: <<quotient,
\* remainder>> of 2^(30+i) by m, given those of 2^30.
RECURSIVE RecipStep(_, _, _, _)
RecipStep(m, i, q, r) ==
    IF i = 20 THEN <<q, r>>
    ELSE LET b == IF i + 6 <= 20 THEN 6 ELSE 20 - i
         IN  RecipStep(m, i + b, q * 2^b + ((r * 2^b) \div m), (r * 2^b) % m)

\* 1.0 / a, for a finite and not zero
FRecip(a) ==
    IF a = NaN THEN NaN
    ELSE LET m == Abs(a[1])
             qr == RecipStep(m, 0, 2^30 \div m, 2^30 % m)
         IN  RoundNE(Sgn(a[1]) * Sticky(qr[1], qr[2] # 0), -50 - a[2])

\* a < b and a <= b on finite values
FLess(a, b) == a # NaN /\ b # NaN /\ a # b /\ FSub(a, b)[1] < 0
FLeq(a, b) == a # NaN /\ b # NaN /\ (a = b \/ FSub(a, b)[1] < 0)


(***************************************************************************)
(* Vec3 (glam): a triple of f32, every operation componentwise             *)
(***************************************************************************)

Vec3(x, y, z) == <<F32(x), F32(y), F32(z)>>
VecY == Vec3(0, 1, 0)
VecNaN == <<NaN, NaN, NaN>>

VAdd(u, v) == <<FAdd(u[1], v[1]), FAdd(u[2], v[2]), FAdd(u[3], v[3])>>
VSub(u, v) == <<FSub(u[1], v[1]), FSub(u[2], v[2]), FSub(u[3], v[3])>>
\* Vec3 * f32
VScale(v, s) == <<FMul(v[1], s), FMul(v[2], s), FMul(v[3], s)>>
\* f32 * Vec3
SVec(s, v) == <<FMul(s, v[1]), FMul(s, v[2]), FMul(s, v[3])>>
Dot(u, v) == FAdd(FAdd(FMul(u[1], v[1]), FMul(u[2], v[2])), FMul(u[3], v[3]))
Length(v) == FSqrt(Dot(v, v))
\* glam: self * self.length_recip().  For the zero vector the reciprocal is
\* infinite and every component is 0 * inf, which is NaN.
Normalize(v) ==
    LET len == Length(v)
    IN  IF len = Zero \/ len = NaN THEN VecNaN ELSE VScale(v, FRecip(len))

(***************************************************************************)
(* LookTransform                                                           *)
(***************************************************************************)

LookTransform(eye, target) == [eye |-> eye, target |-> target]

radius(self) == Length(VSub(self.target, self.eye))

look_direction(self) == Normalize(VSub(self.target, self.eye))

\* A slip of offset_eye_in_direction: the offset is subtracted.
offset_eye_in_direction_neg(self, direction) ==
    [self EXCEPT !.eye = VSub(self.target, SVec(radius(self), direction))]

offset_eye_in_direction(self, direction) ==
    [self EXCEPT !.eye = VAdd(self.target, SVec(radius(self), direction))]

offset_target_in_direction(self, direction) ==
    [self EXCEPT !.target = VAdd(self.eye, SVec(radius(self), direction))]

\* bevy's Transform: a translation and a rotation.  The rotation that
\* looking_at(target, up) builds is the orientation whose forward axis is the
\* unit vector from the translation to target, rolled about it to keep up; it
\* is modelled by that pair.
LookingAt(translation, target, up) ==
    [translation |-> translation,
     rotation |-> [forward |-> Normalize(VSub(target, translation)), up |-> up]]

\* Transform::identity(): at the origin, looking along -Z with +Y up.
TransformIdentity == LookingAt(Vec3(0, 0, 0), Vec3(0, 0, -1), VecY)

p1_look_at_p2_transform(p1, p2) ==
    LET look_vector == Normalize(VSub(p2, p1))
        look_at == VAdd(p1, look_vector)
    IN  LookingAt(p1, look_at, VecY)

\* impl From<LookTransform> for Transform
TransformFrom(t) == p1_look_at_p2_transform(t.eye, t.target)

(***************************************************************************)
(* Smoother                                                                *)
(***************************************************************************)

\* Option<T>
None == <<>>
Some(v) == <<v>>
Unwrap(o) == o[1]

SmootherNew(lag_weight) == [lag_weight |-> lag_weight, lerp_tfm |-> None]

\* A slip of set_lag_weight: the Smoother is built anew.
set_lag_weight_reset(self, lag_weight) == SmootherNew(lag_weight)

set_lag_weight(self, lag_weight) == [self EXCEPT !.lag_weight = lag_weight]

\* A slip of the assertions: the lower bound is not checked.
AssertionsHold_upper(self) == FLess(self.lag_weight, F32(1))

\* The two debug_assert!s of smooth_transform; they are compiled only into a
\* build with debug assertions.
AssertionsHold(self) ==
    /\ FLeq(Zero, self.lag_weight)
    /\ FLess(self.lag_weight, F32(1))

\* A slip of smooth_transform: the target is interpolated from the stored eye.
smooth_transform_crossed(self, new_tfm, debug) ==
    IF debug /\ ~(FLeq(Zero, self.lag_weight) /\ FLess(self.lag_weight, F32(1)))
    THEN [panicked |-> TRUE, ret |-> None, self |-> self]
    ELSE LET old_lerp_tfm == IF self.lerp_tfm = None THEN new_tfm
                             ELSE Unwrap(self.lerp_tfm)
             lead_weight == FSub(F32(1), self.lag_weight)
             lerp_tfm ==
                 LookTransform(
                     VAdd(VScale(old_lerp_tfm.eye, self.lag_weight),
                          VScale(new_tfm.eye, lead_weight)),
                     VAdd(VScale(old_lerp_tfm.eye, self.lag_weight),
                          VScale(new_tfm.target, lead_weight)))
         IN  [panicked |-> FALSE, ret |-> Some(lerp_tfm),
              self |-> [self EXCEPT !.lerp_tfm = Some(lerp_tfm)]]

\* A slip of smooth_transform: the two weights are exchanged.
smooth_transform_swapped(self, new_tfm, debug) ==
    IF debug /\ ~(FLeq(Zero, self.lag_weight) /\ FLess(self.lag_weight, F32(1)))
    THEN [panicked |-> TRUE, ret |-> None, self |-> self]
    ELSE LET old_lerp_tfm == IF self.lerp_tfm = None THEN new_tfm
                             ELSE Unwrap(self.lerp_tfm)
             lead_weight == FSub(F32(1), self.lag_weight)
             lerp_tfm ==
                 LookTransform(
                     VAdd(VScale(old_lerp_tfm.eye, lead_weight),
                          VScale(new_tfm.eye, self.lag_weight)),
                     VAdd(VScale(old_lerp_tfm.target, lead_weight),
                          VScale(new_tfm.target, self.lag_weight)))
         IN  [panicked |-> FALSE, ret |-> Some(lerp_tfm),
              self |-> [self EXCEPT !.lerp_tfm = Some(lerp_tfm)]]

\* smooth_transform(&mut self, new_tfm): the outcome of the call, the value it
\* returns and the Smoother it leaves.  debug is whether the build has debug
\* assertions.
smooth_transform(self, new_tfm, debug) ==
    IF debug /\ ~AssertionsHold(self)
    THEN [panicked |-> TRUE, ret |-> None, self |-> self]
    ELSE LET old_lerp_tfm == IF self.lerp_tfm = None THEN new_tfm
                             ELSE Unwrap(self.lerp_tfm)
             lead_weight == FSub(F32(1), self.lag_weight)
             lerp_tfm ==
                 LookTransform(
                     VAdd(VScale(old_lerp_tfm.eye, self.lag_weight),
                          VScale(new_tfm.eye, lead_weight)),
                     VAdd(VScale(old_lerp_tfm.target, self.lag_weight),
                          VScale(new_tfm.target, lead_weight)))
         IN  [panicked |-> FALSE, ret |-> Some(lerp_tfm),
              self |-> [self EXCEPT !.lerp_tfm = Some(lerp_tfm)]]

(***************************************************************************)
(* State                                                                   *)
(***************************************************************************)

VARIABLES
    debug_assertions,  \* whether the build has debug assertions (cfg flag)
    \* one Smoother and its caller
    smoother,          \* the Smoother: [lag_weight, lerp_tfm]
    last_op,           \* the last call on it: "new", "set_lag_weight", "smooth_transform"
    last_arg,          \* Some(new_tfm) of the last smooth_transform call that returned
    last_ret,          \* Some(value the last smooth_transform call returned), None if it panicked
    before,            \* the Smoother as it was before the last call
    before_arg,        \* last_arg as it was before the last call
    completed,         \* smooth_transform calls that have returned
    \* one LookTransform and its caller
    lt,                \* the LookTransform
    lt_before,         \* the LookTransform before the last call
    lt_dir,            \* the direction passed to the last call
    lt_op,             \* the last call on it
    lt_ops,            \* calls made
    \* the world look_transform_system runs in
    look,              \* entity -> Some(LookTransform), None without the component
    smoothers,         \* entity -> Some(Smoother), None without the component
    transform,         \* entity -> Transform
    ticks,             \* runs of look_transform_system
    tick               \* how the last run ended: "none" yet, "returned", "panicked"

smoother_vars == <<smoother, last_op, last_arg, last_ret, before, before_arg, completed>>
lt_vars == <<lt, lt_before, lt_dir, lt_op, lt_ops>>
world_vars == <<look, smoothers, transform, ticks, tick>>
vars == <<debug_assertions, smoother_vars, lt_vars, world_vars>>

(***************************************************************************)
(* Inputs                                                                  *)
(***************************************************************************)

\* smooth_transform calls modelled on the one Smoother
MaxCalls == 3

Half == Dyadic(1, 1)
\* 0.1f32
Tenth == FRecip(F32(10))

\* Lag weights within the documented range 0 <= w < 1, and outside it.
InRangeWeights == {Zero, Tenth, Half}
OutOfRangeWeights == {F32(1), Dyadic(-1, 1)}
LagWeights == InRangeWeights \cup OutOfRangeWeights

EyeInputs == {Vec3(0, 0, 0), Vec3(2, 0, 0)}
TargetInputs == {Vec3(0, 0, 1), Vec3(0, 0, 3)}
LookInputs == {LookTransform(e, t) : e \in EyeInputs, t \in TargetInputs}

(***************************************************************************)
(* One Smoother: Smoother::new, then set_lag_weight and smooth_transform   *)
(***************************************************************************)

\* The other parts of the state while one part runs.
LtIdle ==
    /\ lt = LookTransform(Vec3(0, 0, 0), Vec3(0, 0, 1))
    /\ lt_before = lt
    /\ lt_dir = Vec3(0, 0, 1)
    /\ lt_op = "new"
    /\ lt_ops = 0

WorldIdle ==
    /\ look = <<>>
    /\ smoothers = <<>>
    /\ transform = <<>>
    /\ ticks = 0
    /\ tick = "none"

SmootherIdle ==
    /\ smoother = SmootherNew(Zero)
    /\ last_op = "new"
    /\ last_arg = None
    /\ last_ret = None
    /\ before = smoother
    /\ before_arg = None
    /\ completed = 0

\* let mut s = Smoother::new(w)
SmootherInit ==
    /\ debug_assertions \in BOOLEAN
    /\ \E w \in LagWeights : smoother = SmootherNew(w)
    /\ last_op = "new"
    /\ last_arg = None
    /\ last_ret = None
    /\ before = smoother
    /\ before_arg = None
    /\ completed = 0
    /\ LtIdle
    /\ WorldIdle

\* s.set_lag_weight(w)
SetLagWeight(w) ==
    /\ smoother' = set_lag_weight(smoother, w)
    /\ last_op' = "set_lag_weight"
    /\ before' = smoother
    /\ before_arg' = last_arg
    /\ UNCHANGED <<last_arg, last_ret, completed, debug_assertions, lt_vars, world_vars>>

\* s.smooth_transform(&x): it returns, or panics on a failed debug assertion.
SmoothTransform(x) ==
    /\ completed < MaxCalls
    /\ \E call \in {smooth_transform(smoother, x, debug_assertions)} :
           /\ smoother' = call.self
           /\ last_ret' = call.ret
           /\ completed' = IF call.panicked THEN completed ELSE completed + 1
           /\ last_arg' = IF call.panicked THEN last_arg ELSE Some(x)
    /\ last_op' = "smooth_transform"
    /\ before' = smoother
    /\ before_arg' = last_arg
    /\ UNCHANGED <<debug_assertions, lt_vars, world_vars>>

SmootherNext ==
    \/ \E w \in LagWeights : SetLagWeight(w)
    \/ \E x \in LookInputs : SmoothTransform(x)

SpecSmoother == SmootherInit /\ [][SmootherNext]_vars

(***************************************************************************)
(* One LookTransform: its two offset methods                               *)
(***************************************************************************)

\* offset calls modelled on the one LookTransform
MaxOffsets == 2

LtEyes == {Vec3(0, 0, 0), Vec3(3, 4, 0), Vec3(1, 1, 0)}
LtTargets == {Vec3(0, 0, 0), Vec3(0, 0, 1), Vec3(1, 0, 0)}

\* Unit vectors: the six along the axes and one a caller normalized.
Directions ==
    {Vec3(1, 0, 0), Vec3(-1, 0, 0), Vec3(0, 1, 0), Vec3(0, -1, 0),
     Vec3(0, 0, 1), Vec3(0, 0, -1), Normalize(Vec3(3, 4, 0))}

LookInit ==
    /\ debug_assertions = TRUE
    /\ \E e \in LtEyes, t \in LtTargets : lt = LookTransform(e, t)
    /\ lt_before = lt
    /\ lt_dir = Vec3(0, 0, 1)
    /\ lt_op = "new"
    /\ lt_ops = 0
    /\ SmootherIdle
    /\ WorldIdle

OffsetEyeInDirection(d) ==
    /\ lt_ops < MaxOffsets
    /\ lt' = offset_eye_in_direction(lt, d)
    /\ lt_before' = lt
    /\ lt_dir' = d
    /\ lt_op' = "offset_eye_in_direction"
    /\ lt_ops' = lt_ops + 1
    /\ UNCHANGED <<debug_assertions, smoother_vars, world_vars>>

OffsetTargetInDirection(d) ==
    /\ lt_ops < MaxOffsets
    /\ lt' = offset_target_in_direction(lt, d)
    /\ lt_before' = lt
    /\ lt_dir' = d
    /\ lt_op' = "offset_target_in_direction"
    /\ lt_ops' = lt_ops + 1
    /\ UNCHANGED <<debug_assertions, smoother_vars, world_vars>>

LookNext ==
    \/ \E d \in Directions : OffsetEyeInDirection(d)
    \/ \E d \in Directions : OffsetTargetInDirection(d)

SpecLook == LookInit /\ [][LookNext]_vars

(***************************************************************************)
(* The world: entities, their components, and look_transform_system        *)
(***************************************************************************)

\* runs of look_transform_system modelled
MaxTicks == 2

\* Every entity has a Transform.  Entities 1 and 2 were spawned with a
\* LookTransformBundle (a LookTransform and a Smoother), entity 3 with a
\* LookTransform alone, entity 4 with neither.
Entities == {1, 2, 3, 4}
WithLook == {1, 2, 3}
WithSmoother == {1, 2}

\* What the camera controller of each entity writes: LookTransforms, and lag
\* weights within and outside 0 <= w < 1.
LookA == LookTransform(Vec3(0, 0, 0), Vec3(0, 0, 1))
LookB == LookTransform(Vec3(2, 0, 0), Vec3(0, 0, 3))
WorldLooks == {LookA, LookB}
WorldWeights(e) == IF e = 1 THEN {Zero, Half, F32(1)} ELSE {Zero, Half}

Init ==
    /\ debug_assertions \in BOOLEAN
    /\ look = [e \in Entities |-> IF e \in WithLook THEN Some(LookA) ELSE None]
    /\ \E w \in WorldWeights(1) :
           smoothers = [e \in Entities |->
                           IF e \in WithSmoother THEN Some(SmootherNew(w)) ELSE None]
    /\ transform = [e \in Entities |-> TransformIdentity]
    /\ ticks = 0
    /\ tick = "none"
    /\ SmootherIdle
    /\ LtIdle

\* A slip of the loop body: the Transform is converted from the LookTransform
\* even when the Smoother returned another value.
ProcessEntity_raw(e, looks, cs, debug) ==
    IF cs.panicked THEN cs
    ELSE LET look_transform == Unwrap(looks[e])
         IN  IF cs.smoothers[e] # None
             THEN LET call == smooth_transform(Unwrap(cs.smoothers[e]),
                                               look_transform, debug)
                  IN  IF call.panicked THEN [cs EXCEPT !.panicked = TRUE]
                      ELSE [cs EXCEPT
                               !.smoothers[e] = Some(call.self),
                               !.transform[e] = TransformFrom(look_transform)]
             ELSE [cs EXCEPT !.transform[e] = TransformFrom(look_transform)]

\* A slip of the loop body: an entity without a Smoother is skipped.
ProcessEntity_smoothed_only(e, looks, cs, debug) ==
    IF cs.panicked THEN cs
    ELSE LET look_transform == Unwrap(looks[e])
         IN  IF cs.smoothers[e] # None
             THEN LET call == smooth_transform(Unwrap(cs.smoothers[e]),
                                               look_transform, debug)
                  IN  IF call.panicked THEN [cs EXCEPT !.panicked = TRUE]
                      ELSE [cs EXCEPT
                               !.smoothers[e] = Some(call.self),
                               !.transform[e] = TransformFrom(Unwrap(call.ret))]
             ELSE cs

\* A slip of the loop body: every entity is smoothed by the Smoother of
\* entity 1.
ProcessEntity_shared(e, looks, cs, debug) ==
    IF cs.panicked THEN cs
    ELSE LET look_transform == Unwrap(looks[e])
         IN  IF cs.smoothers[e] # None
             THEN LET call == smooth_transform(Unwrap(cs.smoothers[1]),
                                               look_transform, debug)
                  IN  IF call.panicked THEN [cs EXCEPT !.panicked = TRUE]
                      ELSE [cs EXCEPT
                               !.smoothers[1] = Some(call.self),
                               !.transform[e] = TransformFrom(Unwrap(call.ret))]
             ELSE [cs EXCEPT !.transform[e] = TransformFrom(look_transform)]

\* The body of the system's loop for one entity the query matched, on the
\* components cs = [smoothers, transform, panicked] the run has reached.
\* looks is read only.
ProcessEntity(e, looks, cs, debug) ==
    IF cs.panicked THEN cs
    ELSE LET look_transform == Unwrap(looks[e])
         IN  IF cs.smoothers[e] # None
             THEN LET call == smooth_transform(Unwrap(cs.smoothers[e]),
                                               look_transform, debug)
                  IN  IF call.panicked THEN [cs EXCEPT !.panicked = TRUE]
                      ELSE [cs EXCEPT
                               !.smoothers[e] = Some(call.self),
                               !.transform[e] = TransformFrom(Unwrap(call.ret))]
             ELSE [cs EXCEPT !.transform[e] = TransformFrom(look_transform)]

\* for (...) in cameras.iter_mut(), in the order the query yields the entities
RECURSIVE RunSystem(_, _, _, _)
RunSystem(order, looks, cs, debug) ==
    IF order = <<>> THEN cs
    ELSE RunSystem(Tail(order), looks, ProcessEntity(Head(order), looks, cs, debug),
                   debug)

\* The entities Query<(&LookTransform, &mut Transform, Option<&mut Smoother>)>
\* matches, and the orders it may yield them in.
Matched(looks) == {e \in Entities : looks[e] # None}
Orders(looks) ==
    LET S == Matched(looks)
        n == Cardinality(S)
    IN  {o \in [1..n -> S] : \A i, j \in 1..n : o[i] = o[j] => i = j}

look_transform_system(order, looks, sm, tf, debug) ==
    RunSystem(order, looks, [smoothers |-> sm, transform |-> tf, panicked |-> FALSE],
              debug)

\* A panic of the system ends the app.
Running == tick # "panicked"

\* The camera controller overwrites an entity's LookTransform.
SetLook(e, x) ==
    /\ Running
    /\ look[e] # None
    /\ look' = [look EXCEPT ![e] = Some(x)]
    /\ UNCHANGED <<smoothers, transform, ticks, tick,
                   debug_assertions, smoother_vars, lt_vars>>

\* smoother.set_lag_weight(w) on an entity's Smoother
SetEntityLagWeight(e, w) ==
    /\ Running
    /\ smoothers[e] # None
    /\ smoothers' = [smoothers EXCEPT ![e] = Some(set_lag_weight(Unwrap(smoothers[e]), w))]
    /\ UNCHANGED <<look, transform, ticks, tick,
                   debug_assertions, smoother_vars, lt_vars>>

\* One run of look_transform_system: it returns, or a Smoother's debug
\* assertion fails part of the way and the panic ends the run and the app.
Tick ==
    /\ Running
    /\ ticks < MaxTicks
    /\ \E order \in Orders(look) :
           \E r \in {look_transform_system(order, look, smoothers, transform,
                                          debug_assertions)} :
               /\ smoothers' = r.smoothers
               /\ transform' = r.transform
               /\ tick' = IF r.panicked THEN "panicked" ELSE "returned"
    /\ ticks' = ticks + 1
    /\ UNCHANGED <<look, debug_assertions, smoother_vars, lt_vars>>

Next ==
    \/ \E e \in Entities : \E x \in WorldLooks : SetLook(e, x)
    \/ \E e \in Entities : \E w \in WorldWeights(e) : SetEntityLagWeight(e, w)
    \/ Tick

Spec == Init /\ [][Next]_vars

(***************************************************************************)
(* Properties of the Smoother (checked under SpecSmoother)                 *)
(***************************************************************************)

\* 0 <= w < 1
InRange(w) == FLeq(Zero, w) /\ FLess(w, F32(1))

\* The last call was a smooth_transform that returned.
Returned == last_op = "smooth_transform" /\ last_ret # None

\* p * w + x * (1 - w) in f32
Mix(p, x, w) == FAdd(FMul(p, w), FMul(x, FSub(F32(1), w)))

\* C1: the first smooth_transform call on an uninitialized Smoother with
\* 0 <= lag_weight < 1 returns a value whose eye and target equal the input's
\* and leaves the input as the stored smoothed value.
C1_FirstCallReturnsInput ==
    (Returned /\ before.lerp_tfm = None /\ InRange(before.lag_weight))
        => /\ Unwrap(last_ret).eye = Unwrap(last_arg).eye
           /\ Unwrap(last_ret).target = Unwrap(last_arg).target
           /\ smoother.lerp_tfm = last_arg

\* C2: on a primed Smoother with stored value p and 0 <= lag_weight = w < 1,
\* smooth_transform(x) returns p * w + x * (1 - w) in every component, eye from
\* the eyes and target from the targets; with w = 0.5, p = (eye (0,0,0),
\* target (0,0,1)) and x = (eye (2,0,0), target (0,0,3)) that is eye (1,0,0),
\* target (0,0,2).
C2_PrimedCallInterpolates ==
    (Returned /\ before.lerp_tfm # None /\ InRange(before.lag_weight))
        => LET p == Unwrap(before.lerp_tfm)
               x == Unwrap(last_arg)
               w == before.lag_weight
               r == Unwrap(last_ret)
           IN  /\ \A i \in 1..3 :
                      /\ r.eye[i] = Mix(p.eye[i], x.eye[i], w)
                      /\ r.target[i] = Mix(p.target[i], x.target[i], w)
               /\ (/\ w = Half
                   /\ p = LookTransform(Vec3(0, 0, 0), Vec3(0, 0, 1))
                   /\ x = LookTransform(Vec3(2, 0, 0), Vec3(0, 0, 3)))
                      => r = LookTransform(Vec3(1, 0, 0), Vec3(0, 0, 2))

\* The scenario of C2 has run.
C2_Witness ==
    /\ Returned
    /\ before.lag_weight = Half
    /\ before.lerp_tfm = Some(LookTransform(Vec3(0, 0, 0), Vec3(0, 0, 1)))
    /\ last_arg = Some(LookTransform(Vec3(2, 0, 0), Vec3(0, 0, 3)))
    /\ last_ret = Some(LookTransform(Vec3(1, 0, 0), Vec3(0, 0, 2)))

\* C3: with lag_weight = 0 every smooth_transform call returns its input,
\* uninitialized or primed, whatever calls came before.
C3_ZeroLagReturnsInput ==
    (Returned /\ before.lag_weight = Zero) => Unwrap(last_ret) = Unwrap(last_arg)

\* A primed Smoother holding another value was called with lag_weight 0.
C3_Witness ==
    /\ Returned
    /\ before.lag_weight = Zero
    /\ before.lerp_tfm # None
    /\ before.lerp_tfm # last_arg
    /\ completed >= 2

\* The output o of a call lies between the previous output p and the input x,
\* and has moved off p unless p was x already.
Approaches(p, o, x) ==
    /\ FLeq(p, x) => (FLeq(p, o) /\ FLeq(o, x))
    /\ FLeq(x, p) => (FLeq(x, o) /\ FLeq(o, p))
    /\ p # x => o # p

\* C4: when a primed Smoother with 0 <= lag_weight < 1 is called again with
\* the input x of the call before, every component of the output is no farther
\* from x than the previous output, not on the other side of x, and strictly
\* closer unless the previous output was x.
C4_RepeatedInputConverges ==
    (Returned /\ before.lerp_tfm # None /\ InRange(before.lag_weight)
        /\ before_arg = last_arg)
        => LET p == Unwrap(before.lerp_tfm)
               x == Unwrap(last_arg)
               o == Unwrap(last_ret)
           IN  \A i \in 1..3 :
                   /\ Approaches(p.eye[i], o.eye[i], x.eye[i])
                   /\ Approaches(p.target[i], o.target[i], x.target[i])

\* C8 as stated: whatever the build, a smooth_transform call with lag_weight
\* outside 0 <= w < 1 fails, returns nothing and leaves the Smoother as it was.
C8_OutOfRangeCallFails ==
    (last_op = "smooth_transform" /\ ~InRange(before.lag_weight))
        => (last_ret = None /\ smoother = before)

\* C8, amended: Smoother::new and set_lag_weight take any lag weight; a
\* smooth_transform call with lag_weight outside 0 <= w < 1 fails, returning
\* nothing and leaving the Smoother as it was, in a build with debug assertions;
\* without them it returns and stores a value as any other call does.  A call
\* with lag_weight in range never fails.
C8_DebugBuildEnforcesRange ==
    /\ last_op = "set_lag_weight" => smoother.lerp_tfm = before.lerp_tfm
    /\ (last_op = "smooth_transform" /\ ~InRange(before.lag_weight))
           => IF debug_assertions
              THEN last_ret = None /\ smoother = before
              ELSE last_ret # None /\ smoother.lerp_tfm = last_ret
                   /\ smoother.lag_weight = before.lag_weight
    /\ (last_op = "smooth_transform" /\ InRange(before.lag_weight))
           => last_ret # None

\* A primed Smoother was given a negative lag weight and the next call failed.
C8_Witness ==
    /\ debug_assertions
    /\ last_op = "smooth_transform"
    /\ FLess(before.lag_weight, Zero)
    /\ before.lerp_tfm # None
    /\ last_ret = None
    /\ smoother = before

\* C9: the stored value is None exactly while no smooth_transform call has
\* returned; a primed Smoother stays primed; set_lag_weight leaves the stored
\* value alone; after a call that returned, the stored value is the value it
\* returned.
C9_StoredValueLifecycle ==
    /\ smoother.lerp_tfm = None <=> completed = 0
    /\ before.lerp_tfm # None => smoother.lerp_tfm # None
    /\ last_op = "set_lag_weight" => smoother.lerp_tfm = before.lerp_tfm
    /\ Returned => smoother.lerp_tfm = last_ret

\* set_lag_weight was called on a primed Smoother between two calls.
C9_Witness ==
    /\ last_op = "set_lag_weight"
    /\ smoother.lag_weight # before.lag_weight
    /\ smoother.lerp_tfm # None
    /\ completed >= 1

(***************************************************************************)
(* Properties of LookTransform (checked under SpecLook)                    *)
(***************************************************************************)

FAbs(a) == IF a = NaN THEN NaN ELSE <<Abs(a[1]), a[2]>>

\* a and b differ by no more than 2^-18: a few units in the last place of the
\* f32s of magnitude below 16 that the model reaches.
Near(a, b) == FLeq(FAbs(FSub(a, b)), Dyadic(1, 18))
NearVec(u, v) == \A i \in 1..3 : Near(u[i], v[i])
VNeg(v) == <<FNeg(v[1]), FNeg(v[2]), FNeg(v[3])>>

\* offset_eye_in_direction(lt_dir) was the last call, on a LookTransform whose
\* eye and target differed.
OffsetEyeDone ==
    lt_op = "offset_eye_in_direction" /\ lt_before.eye # lt_before.target

\* C7 as stated: offset_eye_in_direction(d), d a unit vector, leaves target and
\* radius() unchanged, and afterwards (target - eye) normalized equals d.
C7_OffsetEyeLooksAlongD ==
    OffsetEyeDone
        => /\ lt.target = lt_before.target
           /\ radius(lt) = radius(lt_before)
           /\ Normalize(VSub(lt.target, lt.eye)) = lt_dir

\* C7, amended: offset_eye_in_direction(d) leaves target unchanged and moves
\* eye to the f32 value of target + radius() * d.  Up to f32 rounding, radius()
\* is unchanged and (eye - target) normalized equals d: the eye lies in
\* direction d from the target, and look_direction(), which is (target - eye)
\* normalized, equals -d.
C7_OffsetEyePlacesEyeAlongD ==
    OffsetEyeDone
        => /\ lt.target = lt_before.target
           /\ lt.eye = VAdd(lt_before.target, SVec(radius(lt_before), lt_dir))
           /\ Near(radius(lt), radius(lt_before))
           /\ NearVec(Normalize(VSub(lt.eye, lt.target)), lt_dir)
           /\ NearVec(look_direction(lt), VNeg(lt_dir))

\* The eye was moved along a direction that is not an axis.
C7_Witness ==
    /\ OffsetEyeDone
    /\ lt_dir = Normalize(Vec3(3, 4, 0))
    /\ lt.eye # lt_before.eye
    /\ lt.eye # lt.target

(***************************************************************************)
(* Properties of look_transform_system (checked under Spec)                *)
(***************************************************************************)

\* This step is a run of look_transform_system that returned.
RunReturned == ticks' = ticks + 1 /\ tick' = "returned"

\* Every Smoother the query reaches has its lag_weight in 0 <= w < 1.
SmoothersInRange ==
    \A e \in Matched(look) :
        smoothers[e] # None => InRange(Unwrap(smoothers[e]).lag_weight)

\* C5: a run of the system over Smoothers with lag weights in range returns;
\* in a run that returns, every entity with a LookTransform and a Smoother has
\* smooth_transform called once on that Smoother with its LookTransform, and
\* its Transform overwritten with the conversion of the value returned; every
\* entity with a LookTransform and no Smoother has its Transform overwritten
\* with the conversion of its LookTransform.
C5_RunConvertsEffectiveLook ==
    [][ticks' = ticks + 1 =>
        /\ SmoothersInRange => tick' = "returned"
        /\ tick' = "returned" =>
            \A e \in Entities :
                look[e] # None =>
                    IF smoothers[e] # None
                    THEN LET call == smooth_transform(Unwrap(smoothers[e]),
                                                      Unwrap(look[e]),
                                                      debug_assertions)
                         IN  /\ ~call.panicked
                             /\ smoothers'[e] = Some(call.self)
                             /\ transform'[e] = TransformFrom(Unwrap(call.ret))
                    ELSE transform'[e] = TransformFrom(Unwrap(look[e]))]_vars

\* Two runs have returned; entity 1's smoothed value lags its LookTransform and
\* its Transform shows the smoothed value; entity 3, without a Smoother, shows
\* its LookTransform.
C5_Witness ==
    /\ ticks = 2
    /\ tick = "returned"
    /\ Unwrap(smoothers[1]).lerp_tfm # None
    /\ Unwrap(smoothers[1]).lerp_tfm # look[1]
    /\ transform[1] = TransformFrom(Unwrap(Unwrap(smoothers[1]).lerp_tfm))
    /\ transform[1] # TransformFrom(Unwrap(look[1]))
    /\ transform[3] = TransformFrom(Unwrap(look[3]))
    /\ transform[3] # TransformIdentity

Components == [smoothers |-> smoothers, transform |-> transform, panicked |-> FALSE]

\* C10: a run of the system leaves every LookTransform and every lag_weight as
\* they were and adds or removes no component; it touches nothing of an entity
\* the query does not match; processing one entity changes no other entity's
\* Smoother or Transform; and what a run that returns leaves for an entity is
\* what processing that entity alone leaves, whatever the order of the run.
C10_RunFrame ==
    [][ticks' = ticks + 1 =>
        /\ look' = look
        /\ \A e \in Entities :
               /\ smoothers'[e] = None <=> smoothers[e] = None
               /\ smoothers[e] # None =>
                      Unwrap(smoothers'[e]).lag_weight = Unwrap(smoothers[e]).lag_weight
               /\ look[e] = None =>
                      smoothers'[e] = smoothers[e] /\ transform'[e] = transform[e]
        /\ \A e \in Matched(look) :
               LET alone == ProcessEntity(e, look, Components, debug_assertions)
               IN  /\ \A f \in Entities \ {e} :
                          /\ alone.smoothers[f] = smoothers[f]
                          /\ alone.transform[f] = transform[f]
                   /\ tick' = "returned" =>
                          /\ ~alone.panicked
                          /\ smoothers'[e] = alone.smoothers[e]
                          /\ transform'[e] = alone.transform[e]]_vars

\* A run with two Smoothers in different states and different LookTransforms
\* has returned.
C10_Witness ==
    /\ ticks = 2
    /\ tick = "returned"
    /\ look[1] # look[2]
    /\ smoothers[1] # smoothers[2]
    /\ Unwrap(smoothers[1]).lerp_tfm # look[1]
    /\ transform[1] # transform[2]
    /\ transform[2] # transform[3]
    /\ transform[4] = TransformIdentity

=============================================================================
